---- MODULE Spec2Model ----
(***************************************************************************)
(* A model of the cdrs driver's two connection front ends:                 *)
(*   - the single-connection facade CDRS (src/src/client.rs), whose        *)
(*     methods clone the socket handle, write one request and parse one    *)
(*     response frame;                                                     *)
(*   - the SSL connection manager used by the bb8 pool                     *)
(*     (src/src/cluster/ssl_connection_pool.rs): connect, is_valid,        *)
(*     has_broken and new_ssl_pool.                                        *)
(***************************************************************************)
EXTENDS Integers, Sequences, FiniteSets, TLC

\* ------------------------------------------------------------------ bounds
\* Number of threads sharing one &CDRS.
NumThreads == 2
\* Total number of facade calls in one behaviour.
MaxReqs == 2
\* Number of tasks acquiring connections from the pool.
NumAcquirers == 2
\* Connections the manager creates in one behaviour (connection instances).
MaxConns == 2
\* Largest node_config.max_size tried.
MaxSize == 1
\* AUTH_CHALLENGE frames a server sends in one handshake.
MaxChallenges == 1
\* Response frames that can sit unread in one pooled connection's buffer.
MaxBuffered == 2

Threads == 1..NumThreads
Acquirers == 1..NumAcquirers
ConnIds == 1..MaxConns

\* ------------------------------------------------------------------ frames
RequestOpcodes == {"STARTUP", "OPTIONS", "PREPARE", "EXECUTE", "QUERY"}

\* The answers a server gives to a request of each kind.  "BAD" stands for
\* bytes that do not decode into a frame.
Responses(op) ==
    CASE op = "STARTUP" -> {"READY", "AUTHENTICATE", "ERROR"}
      [] op = "OPTIONS" -> {"SUPPORTED", "ERROR"}
      [] OTHER          -> {"RESULT", "ERROR"}

NoFrame == [answers |-> 0, opcode |-> "NONE"]
NoResult == [kind |-> "None", req |-> 0, answers |-> 0, opcode |-> "NONE"]

\* parse_frame on the head of a receive queue: a frame that decodes is
\* returned, except that an ERROR frame is surfaced as a server error; bytes
\* that do not decode are a protocol error.
parse_frame(f) ==
    CASE f.opcode = "BAD"   -> [kind |-> "ProtocolError", frame |-> NoFrame]
      [] f.opcode = "ERROR" -> [kind |-> "ServerError", frame |-> NoFrame]
      [] OTHER              -> [kind |-> "Ok", frame |-> f]

\* Reading from a socket with nothing buffered whose peer is gone.
ReadEof == [kind |-> "IoError", frame |-> NoFrame]

VARIABLES
    \* ---- single-connection facade (client.rs)
    fpc,        \* per thread: "idle", "cloned" (handle obtained), "written"
    freq,       \* per thread: the request the current call built (0: none)
    fres,       \* per thread: what the last call returned
    reqs,       \* the opcode of every request built so far, by request id
    c2s,        \* what was written to the socket and the peer has not consumed:
                \* per write call, the request and whether all its bytes went out
    s2c,        \* response frames buffered on the socket, unread
    sock,       \* "open", or "dead" once the peer is gone
    ftainted,   \* a call failed after its write, before a clean response
    \* ---- pool of SSL connections (cluster/ssl_connection_pool.rs)
    node_config,\* the NodeSslConfig given to new_ssl_pool
    pool,       \* what new_ssl_pool returned: the pool's settings, or the error
    conns,      \* per connection instance, a record:
                \*   state: "None", "Connecting", "Handshaking", "Ready",
                \*          "Validating", "CheckedOut", "Broken", "Closed"
                \*   sock:  its socket, "open" or "dead"
                \*   in:    how many response frames are buffered on it, unread
                \*   mutex: whether the Mutex<TransportTls> is locked
                \*   hs:    how far startup() got, then how it ended (kept
                \*          until the connection is first checked out)
                \*   chal:  AUTH_CHALLENGE frames answered so far
                \*   ivpc:  the position of is_valid
                \*   taint: a round trip on it failed midway
                \*   opens: how many times connect tried to open its transport
    acq         \* per acquiring task, a record:
                \*   pc:    "idle", "waiting", "validating", "holding", "wrote",
                \*          then how the round trip ended: "ok",
                \*          "server_error", "failed"
                \*   conn:  the connection it validates or holds (0: none)
                \*   vdead: the socket was already dead when validation began
                \*   vw, vr, vop: what the validation just ended made of its
                \*          write and of its parse, and the opcode it parsed

fvars == <<fpc, freq, fres, reqs, c2s, s2c, sock, ftainted>>
pvars == <<node_config, pool, conns, acq>>
vars == <<fvars, pvars>>

\* ------------------------------------------------------------- the facade
\* CDRS::new leaves one connected socket and no call in progress.
FInit ==
    /\ fpc = [t \in Threads |-> "idle"]
    /\ freq = [t \in Threads |-> 0]
    /\ fres = [t \in Threads |-> NoResult]
    /\ reqs = <<>>
    /\ c2s = <<>>
    /\ s2c = <<>>
    /\ sock = "open"
    /\ ftainted = FALSE

\* What one write call puts on the wire: the whole frame of request r, or,
\* when the call accepts fewer bytes than the buffer holds, a prefix of it.
WriteOutcomes(r) == {[req |-> r, full |-> b] : b \in BOOLEAN}

\* self.tcp.try_clone() and the building of the request frame: the first two
\* statements of every method.  A failed clone returns the error at once.
try_clone(t, op) ==
    /\ fpc[t] = "idle"
    /\ Len(reqs) < MaxReqs
    /\ \/ /\ fpc' = [fpc EXCEPT ![t] = "cloned"]
          /\ reqs' = Append(reqs, op)
          /\ freq' = [freq EXCEPT ![t] = Len(reqs) + 1]
          /\ fres' = [fres EXCEPT ![t] = NoResult]
       \/ /\ fres' = [fres EXCEPT ![t] =
                        [kind |-> "IoError", req |-> 0, answers |-> 0, opcode |-> "NONE"]]
          /\ UNCHANGED <<fpc, reqs, freq>>
    /\ UNCHANGED <<c2s, s2c, sock, ftainted, pvars>>

start(t) == try_clone(t, "STARTUP")
options(t) == try_clone(t, "OPTIONS")
prepare(t) == try_clone(t, "PREPARE")
execute(t) == try_clone(t, "EXECUTE")
query(t) == try_clone(t, "QUERY")

\* try!(tcp.write(frame.as_slice())): one write call.  Write::write may
\* accept only a prefix of the buffer; the count it returns is dropped.
\* On a dead socket the call fails, or still succeeds into the send buffer.
write(t) ==
    /\ fpc[t] = "cloned"
    /\ \/ \E w \in WriteOutcomes(freq[t]) :
            /\ c2s' = Append(c2s, w)
            /\ fpc' = [fpc EXCEPT ![t] = "written"]
            /\ UNCHANGED <<fres, freq>>
       \/ /\ sock = "dead"
          /\ fpc' = [fpc EXCEPT ![t] = "idle"]
          /\ fres' = [fres EXCEPT ![t] =
                        [kind |-> "IoError", req |-> freq[t], answers |-> 0, opcode |-> "NONE"]]
          /\ freq' = [freq EXCEPT ![t] = 0]
          /\ UNCHANGED c2s
    /\ UNCHANGED <<reqs, s2c, sock, ftainted, pvars>>

\* A changed return: a call that reads AUTHENTICATE does not return it but
\* goes on with the handshake, waiting for the next frame.
FacadeReturn_continues(t, r, rest) ==
    IF r.kind = "Ok" /\ r.frame.opcode = "AUTHENTICATE"
    THEN /\ s2c' = rest
         /\ UNCHANGED <<fres, fpc, freq, ftainted>>
    ELSE /\ fres' = [fres EXCEPT ![t] =
                       [kind |-> r.kind, req |-> freq[t],
                        answers |-> r.frame.answers, opcode |-> r.frame.opcode]]
         /\ fpc' = [fpc EXCEPT ![t] = "idle"]
         /\ freq' = [freq EXCEPT ![t] = 0]
         /\ s2c' = rest
         /\ ftainted' = (ftainted \/ r.kind \in {"IoError", "ProtocolError"})

\* return parse_frame(tcp): blocks until a frame is buffered or the socket
\* is at end of file, and returns what was parsed.
FacadeReturn(t, r, rest) ==
    /\ fres' = [fres EXCEPT ![t] =
                  [kind |-> r.kind, req |-> freq[t],
                   answers |-> r.frame.answers, opcode |-> r.frame.opcode]]
    /\ fpc' = [fpc EXCEPT ![t] = "idle"]
    /\ freq' = [freq EXCEPT ![t] = 0]
    /\ s2c' = rest
    /\ ftainted' = (ftainted \/ r.kind \in {"IoError", "ProtocolError"})

read(t) ==
    /\ fpc[t] = "written"
    /\ \/ /\ s2c # <<>>
          /\ FacadeReturn(t, parse_frame(Head(s2c)), Tail(s2c))
       \/ /\ s2c = <<>>
          /\ sock = "dead"
          /\ FacadeReturn(t, ReadEof, s2c)
    /\ UNCHANGED <<reqs, c2s, sock, pvars>>

\* The peer: a complete request frame is answered; a prefix of a frame
\* followed by the bytes of another write does not decode, and the peer hangs
\* up; a prefix with nothing after it leaves the peer waiting for the rest.
Server ==
    /\ sock = "open"
    /\ c2s # <<>>
    /\ Head(c2s).full \/ Len(c2s) > 1
    /\ IF Head(c2s).full
       THEN /\ \E o \in Responses(reqs[Head(c2s).req]) \cup {"BAD"} :
                 s2c' = Append(s2c, [answers |-> Head(c2s).req, opcode |-> o])
            /\ c2s' = Tail(c2s)
            /\ UNCHANGED sock
       ELSE /\ sock' = "dead"
            /\ UNCHANGED <<s2c, c2s>>
    /\ UNCHANGED <<fpc, freq, fres, reqs, ftainted, pvars>>

\* The socket is closed out of band.
SocketDies ==
    /\ sock = "open"
    /\ sock' = "dead"
    /\ UNCHANGED <<fpc, freq, fres, reqs, c2s, s2c, ftainted, pvars>>

FNext ==
    \/ \E t \in Threads : start(t)
    \/ \E t \in Threads : options(t)
    \/ \E t \in Threads : prepare(t)
    \/ \E t \in Threads : execute(t)
    \/ \E t \in Threads : query(t)
    \/ \E t \in Threads : write(t)
    \/ \E t \in Threads : read(t)
    \/ Server
    \/ SocketDies

\* ---------------------------------------------------------------- the pool
NoPool ==
    [status |-> "unbuilt", error |-> "", addr |-> "", max_size |-> 0, min_idle |-> 0,
     max_lifetime |-> "", idle_timeout |-> "", connection_timeout |-> ""]

NodeConfigs ==
    [addr : {"node"}, max_size : 1..MaxSize, min_idle : {0},
     max_lifetime : {"lifetime"}, idle_timeout : {"idle"},
     connection_timeout : {"timeout"}]

NoConn ==
    [state |-> "None", sock |-> "open", in |-> 0, mutex |-> FALSE, hs |-> "none",
     chal |-> 0, ivpc |-> "none", taint |-> FALSE, opens |-> 0]
NoAcq ==
    [pc |-> "idle", conn |-> 0, vdead |-> FALSE, vw |-> "None", vr |-> "None",
     vop |-> "NONE"]
\* parse_frame was not reached.
NotParsed == [kind |-> "None", frame |-> NoFrame]

\* A connection that was dropped: its transport is gone, only the fact that
\* it ended Broken or Closed remains.
Dropped(st) == [NoConn EXCEPT !.state = st]
Settle(c) == IF c.state \in {"Broken", "Closed"} THEN Dropped(c.state) ELSE c

PInit ==
    /\ node_config \in NodeConfigs
    /\ pool = NoPool
    /\ conns = [k \in ConnIds |-> NoConn]
    /\ acq = [a \in Acquirers |-> NoAcq]

Init == FInit /\ PInit

\* A changed builder: the pool is built one larger than configured.
builder_one_more(nc) ==
    [max_size |-> nc.max_size + 1, min_idle |-> nc.min_idle,
     max_lifetime |-> nc.max_lifetime, idle_timeout |-> nc.idle_timeout,
     connection_timeout |-> nc.connection_timeout]

\* A changed builder: the two durations are passed to each other's setter.
builder_swapped(nc) ==
    [max_size |-> nc.max_size, min_idle |-> nc.min_idle,
     max_lifetime |-> nc.idle_timeout, idle_timeout |-> nc.max_lifetime,
     connection_timeout |-> nc.connection_timeout]

\* Builder::new().max_size(..).min_idle(..).max_lifetime(..).idle_timeout(..)
\* .connection_timeout(..): the settings the pool is built with.
builder(nc) ==
    [max_size |-> nc.max_size, min_idle |-> nc.min_idle,
     max_lifetime |-> nc.max_lifetime, idle_timeout |-> nc.idle_timeout,
     connection_timeout |-> nc.connection_timeout]

\* What node_config.addr.to_socket_addrs() can give: an error, or the
\* addresses the name resolves to (possibly none).
ResolveOutcomes ==
    {[ok |-> FALSE, addrs |-> <<>>], [ok |-> TRUE, addrs |-> <<>>],
     [ok |-> TRUE, addrs |-> <<"addr1">>], [ok |-> TRUE, addrs |-> <<"addr1", "addr2">>]}

PoolError(text) == [NoPool EXCEPT !.status = "error", !.error = text]

\* new_ssl_pool: build the pool, then resolve the address; either can fail.
new_ssl_pool ==
    /\ pool.status = "unbuilt"
    /\ \/ pool' = PoolError("build")
       \/ \E r \in ResolveOutcomes :
            pool' = IF ~r.ok THEN PoolError("io")
                    ELSE IF r.addrs = <<>> THEN PoolError("Cannot parse address")
                    ELSE LET b == builder(node_config) IN
                         [status |-> "built", error |-> "", addr |-> Head(r.addrs),
                          max_size |-> b.max_size, min_idle |-> b.min_idle,
                          max_lifetime |-> b.max_lifetime,
                          idle_timeout |-> b.idle_timeout,
                          connection_timeout |-> b.connection_timeout]
    /\ UNCHANGED <<fvars, node_config, conns, acq>>

\* The connections the pool counts against its size: being made, idle, or
\* with a task.
PoolConns ==
    {k \in ConnIds :
        conns[k].state \in {"Connecting", "Handshaking", "Ready", "Validating", "CheckedOut"}}
\* The connections whose transport is open.
OpenConns == {k \in PoolConns : conns[k].state # "Connecting"}

\* The pool framework starts a connection when it is below its maximum size.
AddConnection ==
    /\ pool.status = "built"
    /\ Cardinality(PoolConns) < pool.max_size
    /\ \E k \in ConnIds :
         /\ conns[k].state = "None"
         /\ \A j \in ConnIds : j < k => conns[j].state # "None"
         /\ conns' = [conns EXCEPT ![k].state = "Connecting"]
    /\ UNCHANGED <<fvars, node_config, pool, acq>>

\* A changed connect: a transport that fails to open is tried again.
after_transport_retry(res) == IF res = "Ok" THEN "Handshaking" ELSE "Connecting"

\* connect, line 73: TransportTls::new(&self.addr).await? -- an error
\* leaves connect at once.
after_transport(res) == IF res = "Ok" THEN "Handshaking" ELSE "Closed"

\* A changed connect: the result of startup is not looked at.
after_startup_unchecked(res) == "Ready"

\* connect, lines 74-76: startup(&transport, &self.auth).await?; Ok(transport).
after_startup(res) == IF res = "Ok" THEN "Ready" ELSE "Closed"

connect(k) ==
    /\ conns[k].state = "Connecting"
    /\ \E res \in {"Ok", "Err"} :
         conns' = [conns EXCEPT ![k] =
                     Settle([@ EXCEPT !.state = after_transport(res), !.opens = @ + 1])]
    /\ UNCHANGED <<fvars, node_config, pool, acq>>

\* startup(): STARTUP is written ...
startup_send(k) ==
    /\ conns[k].state = "Handshaking"
    /\ conns[k].hs = "none"
    /\ \/ conns' = [conns EXCEPT ![k].hs = "sent"]
       \/ /\ conns[k].sock = "dead"
          /\ conns' = [conns EXCEPT ![k] =
                         Settle([@ EXCEPT !.hs = "IoError", !.state = after_startup("Err")])]
    /\ UNCHANGED <<fvars, node_config, pool, acq>>

\* ... and the answers are read: READY ends it; AUTHENTICATE is answered
\* with an AUTH_RESPONSE, and so is every AUTH_CHALLENGE, until AUTH_SUCCESS;
\* an ERROR frame, undecodable bytes or a dead socket fail it.
HandshakeReplies(c) ==
    IF c.sock = "dead" THEN {"IoError"}
    ELSE IF c.hs = "sent" THEN {"READY", "AUTHENTICATE", "ERROR", "ProtocolError"}
    ELSE {"AUTH_SUCCESS", "ERROR", "ProtocolError"}
         \cup (IF c.chal < MaxChallenges THEN {"AUTH_CHALLENGE"} ELSE {})

startup_recv(k) ==
    /\ conns[k].state = "Handshaking"
    /\ conns[k].hs \in {"sent", "auth"}
    /\ \E reply \in HandshakeReplies(conns[k]) :
         conns' = [conns EXCEPT ![k] =
            CASE reply \in {"READY", "AUTH_SUCCESS"} ->
                   Settle([@ EXCEPT !.hs = reply, !.chal = 0, !.state = after_startup("Ok")])
              [] reply = "AUTHENTICATE" -> [@ EXCEPT !.hs = "auth"]
              [] reply = "AUTH_CHALLENGE" -> [@ EXCEPT !.chal = @ + 1]
              [] OTHER ->
                   Settle([@ EXCEPT !.hs = reply, !.chal = 0, !.state = after_startup("Err")])]
    /\ UNCHANGED <<fvars, node_config, pool, acq>>

\* A pooled connection's socket is closed out of band.
SockDies(k) ==
    /\ conns[k].state \in {"Handshaking", "Ready", "Validating", "CheckedOut"}
    /\ conns[k].sock = "open"
    /\ conns' = [conns EXCEPT ![k].sock = "dead"]
    /\ UNCHANGED <<fvars, node_config, pool, acq>>

\* The pool framework closes an idle connection (idle timeout, lifetime).
Evict(k) ==
    /\ conns[k].state = "Ready"
    /\ conns' = [conns EXCEPT ![k] = Dropped("Closed")]
    /\ UNCHANGED <<fvars, node_config, pool, acq>>

\* What one write call on a pooled connection does: it fails (dead socket
\* only), or reports success having taken all of the frame or a prefix.
PoolWriteResults(c) ==
    {"Full", "Short"} \cup (IF c.sock = "dead" THEN {"Err"} ELSE {})

\* The peer answers a complete request frame that reaches it: one more
\* response frame is buffered on the connection.
PeerAnswers(c, w) == IF w = "Full" /\ c.sock = "open" THEN c.in + 1 ELSE c.in

\* The frames a peer can have sent on a connection past its handshake: the
\* answer to an OPTIONS or to another request, or bytes that do not decode.
PeerFrames ==
    {[answers |-> 0, opcode |-> o] :
        o \in Responses("OPTIONS") \cup Responses("OTHER") \cup {"BAD"}}

\* What reading one frame from a pooled connection gives: nothing yet (the
\* read blocks), the parse of the first buffered frame, or end of file.
CanRead(c) == c.in > 0 \/ c.sock = "dead"
ReadResults(c) == IF c.in > 0 THEN {parse_frame(f) : f \in PeerFrames} ELSE {ReadEof}
AfterRead(c) == IF c.in > 0 THEN c.in - 1 ELSE c.in

\* ------------------------------------------------------------- acquisition
\* A task asks the pool for a connection.
get(a) ==
    /\ pool.status = "built"
    /\ acq[a].pc = "idle"
    /\ acq' = [acq EXCEPT ![a].pc = "waiting"]
    /\ UNCHANGED <<fvars, node_config, pool, conns>>

\* A changed checkout: the connection stays visible as idle while validated.
Checkout_left_idle(a, k) ==
    /\ acq[a].pc = "waiting"
    /\ conns[k].state = "Ready"
    /\ conns' = [conns EXCEPT ![k].ivpc = "start", ![k].hs = "used"]
    /\ acq' = [acq EXCEPT ![a] =
                 [NoAcq EXCEPT !.pc = "validating", !.conn = k,
                               !.vdead = (conns[k].sock = "dead")]]
    /\ UNCHANGED <<fvars, node_config, pool>>

\* The pool takes an idle connection out for the task and has the manager
\* validate it before handing it over.
Checkout(a, k) ==
    /\ acq[a].pc = "waiting"
    /\ conns[k].state = "Ready"
    /\ conns' = [conns EXCEPT ![k].state = "Validating", ![k].ivpc = "start",
                               ![k].hs = "used"]
    /\ acq' = [acq EXCEPT ![a] =
                 [NoAcq EXCEPT !.pc = "validating", !.conn = k,
                               !.vdead = (conns[k].sock = "dead")]]
    /\ UNCHANGED <<fvars, node_config, pool>>

\* A changed is_valid: only a SUPPORTED frame counts.
is_valid_result_supported(w, r) ==
    IF w = "Ok" /\ r.kind = "Ok" /\ r.frame.opcode = "SUPPORTED" THEN "Ok" ELSE "Err"

\* is_valid's result: the `?` after the write (line 81) and
\* parse_frame(..).await.map(|_| conn) (line 83).
is_valid_result(w, r) == IF w = "Ok" /\ r.kind = "Ok" THEN "Ok" ELSE "Err"

\* is_valid returns: Ok(conn) hands the connection c to the task; with Err
\* the connection, which is_valid took by value, is dropped.
IsValidReturn(a, k, c, w, r) ==
    IF is_valid_result(w, r) = "Ok"
    THEN /\ conns' = [conns EXCEPT ![k] = [c EXCEPT !.state = "CheckedOut", !.ivpc = "none"]]
         /\ acq' = [acq EXCEPT ![a].pc = "holding", ![a].vw = w, ![a].vr = r.kind,
                                ![a].vop = r.frame.opcode]
    ELSE /\ conns' = [conns EXCEPT ![k] = Dropped("Broken")]
         /\ acq' = [acq EXCEPT ![a] =
                      [NoAcq EXCEPT !.pc = "waiting", !.vw = w, !.vr = r.kind]]

\* is_valid, line 81: conn.lock().await ...
is_valid_lock(a) ==
    LET k == acq[a].conn IN
    /\ acq[a].pc = "validating"
    /\ conns[k].ivpc = "start"
    /\ ~conns[k].mutex
    /\ conns' = [conns EXCEPT ![k].mutex = TRUE, ![k].ivpc = "locked"]
    /\ UNCHANGED <<fvars, node_config, pool, acq>>

\* ... .write(options_frame.as_slice()).await?; -- one write call; the guard
\* is a temporary of this statement and is dropped at its end, also when `?`
\* returns the error.
is_valid_write(a) ==
    LET k == acq[a].conn
        c == conns[k]
    IN  /\ acq[a].pc = "validating"
        /\ c.ivpc = "locked"
        /\ c.in < MaxBuffered
        /\ \E w \in PoolWriteResults(c) :
             IF w = "Err"
             THEN IsValidReturn(a, k, [c EXCEPT !.mutex = FALSE], "Err", NotParsed)
             ELSE /\ conns' = [conns EXCEPT ![k] =
                                [c EXCEPT !.mutex = FALSE, !.ivpc = "written",
                                          !.in = PeerAnswers(c, w),
                                          !.taint = @ \/ w = "Short"]]
                  /\ UNCHANGED acq
        /\ UNCHANGED <<fvars, node_config, pool>>

\* is_valid, line 83: parse_frame(&conn, ..) locks the transport to read ...
is_valid_parse_lock(a) ==
    LET k == acq[a].conn IN
    /\ acq[a].pc = "validating"
    /\ conns[k].ivpc = "written"
    /\ ~conns[k].mutex
    /\ conns' = [conns EXCEPT ![k].mutex = TRUE, ![k].ivpc = "parsing"]
    /\ UNCHANGED <<fvars, node_config, pool, acq>>

\* ... reads one frame, unlocks, and is_valid maps the result.
is_valid_parse(a) ==
    LET k == acq[a].conn
        c == conns[k]
    IN  /\ acq[a].pc = "validating"
        /\ c.ivpc = "parsing"
        /\ CanRead(c)
        /\ \E r \in ReadResults(c) :
             IsValidReturn(a, k, [c EXCEPT !.mutex = FALSE, !.in = AfterRead(c)], "Ok", r)
        /\ UNCHANGED <<fvars, node_config, pool>>

\* A changed timeout: it bounds the wait for an idle connection only, not a
\* validation in progress.
GetTimeout_waiting_only(a) ==
    /\ acq[a].pc = "waiting"
    /\ acq' = [acq EXCEPT ![a] = NoAcq]
    /\ UNCHANGED <<fvars, node_config, pool, conns>>

\* The acquisition timeout ends a wait; a validation still running is
\* dropped with its connection.
GetTimeout(a) ==
    /\ acq[a].pc \in {"waiting", "validating"}
    /\ acq' = [acq EXCEPT ![a] = NoAcq]
    /\ conns' = IF acq[a].pc = "validating"
                THEN [conns EXCEPT ![acq[a].conn] = Dropped("Closed")]
                ELSE conns
    /\ UNCHANGED <<fvars, node_config, pool>>

\* ------------------------------------------------ use of a pooled connection
\* The task writes a request on the connection it holds ...
use_write(a) ==
    LET k == acq[a].conn
        c == conns[k]
    IN  /\ acq[a].pc = "holding"
        /\ c.in < MaxBuffered
        /\ \E w \in PoolWriteResults(c) :
             IF w = "Err"
             THEN /\ acq' = [acq EXCEPT ![a] = [NoAcq EXCEPT !.pc = "failed", !.conn = k]]
                  /\ UNCHANGED conns
             ELSE /\ acq' = [acq EXCEPT ![a] = [NoAcq EXCEPT !.pc = "wrote", !.conn = k]]
                  /\ conns' = [conns EXCEPT ![k].in = PeerAnswers(c, w),
                                                ![k].taint = @ \/ w = "Short"]
        /\ UNCHANGED <<fvars, node_config, pool>>

\* ... and reads the response; a transport or protocol error fails the round
\* trip, a server error is a completed round trip.
use_read(a) ==
    LET k == acq[a].conn
        c == conns[k]
    IN  /\ acq[a].pc = "wrote"
        /\ CanRead(c)
        /\ \E r \in ReadResults(c) :
             /\ conns' = [conns EXCEPT ![k].in = AfterRead(c),
                             ![k].taint = @ \/ r.kind \in {"IoError", "ProtocolError"}]
             /\ acq' = [acq EXCEPT ![a].pc =
                          CASE r.kind = "Ok" -> "ok"
                            [] r.kind = "ServerError" -> "server_error"
                            [] OTHER -> "failed"]
        /\ UNCHANGED <<fvars, node_config, pool>>

\* The round trip is given up after the write: a timeout, a panic, a
\* cancelled task.
abandon(a) ==
    /\ acq[a].pc = "wrote"
    /\ acq' = [acq EXCEPT ![a].pc = "failed"]
    /\ conns' = [conns EXCEPT ![acq[a].conn].taint = TRUE]
    /\ UNCHANGED <<fvars, node_config, pool>>

\* A changed has_broken: every returned connection is reported broken.
has_broken_always(k) == TRUE

\* A changed has_broken: a connection on which a round trip failed midway is
\* reported broken.
has_broken_if_tainted(k) == conns[k].taint

\* has_broken, lines 86-88.
has_broken(k) == FALSE

\* The task's handle is dropped: the pool asks has_broken and keeps the
\* connection as idle unless it answers true.
release(a) ==
    LET k == acq[a].conn IN
    /\ acq[a].pc \in {"holding", "ok", "server_error", "failed"}
    /\ conns' = [conns EXCEPT ![k] =
                   Settle([@ EXCEPT !.state = IF has_broken(k) THEN "Broken" ELSE "Ready"])]
    /\ acq' = [acq EXCEPT ![a] = NoAcq]
    /\ UNCHANGED <<fvars, node_config, pool>>

PNext ==
    \/ new_ssl_pool
    \/ AddConnection
    \/ \E k \in ConnIds : connect(k)
    \/ \E k \in ConnIds : startup_send(k)
    \/ \E k \in ConnIds : startup_recv(k)
    \/ \E k \in ConnIds : SockDies(k)
    \/ \E k \in ConnIds : Evict(k)
    \/ \E a \in Acquirers : get(a)
    \/ \E a \in Acquirers, k \in ConnIds : Checkout(a, k)
    \/ \E a \in Acquirers : is_valid_lock(a)
    \/ \E a \in Acquirers : is_valid_write(a)
    \/ \E a \in Acquirers : is_valid_parse_lock(a)
    \/ \E a \in Acquirers : is_valid_parse(a)
    \/ \E a \in Acquirers : GetTimeout(a)
    \/ \E a \in Acquirers : use_write(a)
    \/ \E a \in Acquirers : use_read(a)
    \/ \E a \in Acquirers : abandon(a)
    \/ \E a \in Acquirers : release(a)

Next == FNext \/ PNext

\* The facade alone, the pool alone, and both.
FacadeSpec == Init /\ [][FNext]_vars
PoolSpec == Init /\ [][PNext]_vars
Spec == Init /\ [][Next]_vars

\* ------------------------------------------------- claims about the facade
\* C1: every facade call has exclusive write-then-read access to the socket:
\* no other call writes or reads between a call's write and its read, that
\* is, no two calls are at once between their write and their read.
C1_ExclusiveRoundTrip ==
    Cardinality({t \in Threads : fpc[t] = "written"}) <= 1

\* C2: request N's bytes are fully written before request N+1's bytes begin
\* (only the last write on the wire may be incomplete), and a call that is
\* about to read its response has written every byte of its request frame.
C2_RequestFullyWritten ==
    /\ \A i \in 1..(Len(c2s) - 1) : c2s[i].full
    /\ \A t \in Threads : fpc[t] = "written" =>
          \A i \in 1..Len(c2s) : c2s[i].req = freq[t] => c2s[i].full

\* C3: the frame a facade call returns is the response to the request that
\* same call wrote.
C3_ResponseMatchesRequest ==
    \A t \in Threads : fres[t].kind = "Ok" => fres[t].answers = fres[t].req

\* --------------------------------------------------- claims about the pool
PoolFairSpec == PoolSpec /\ \A a \in Acquirers : WF_vars(release(a))

\* The tasks that have a connection in hand: being validated for them, or
\* handed to them and not yet released.
Holding(a) ==
    acq[a].pc \in {"validating", "holding", "wrote", "ok", "server_error", "failed"}

\* C4: a pooled connection is with at most one task at a time: no two tasks
\* validate or hold the same connection, and a connection a task validates
\* or holds is not idle (Ready), where another acquirer could take it.
C4_ExclusiveCheckout ==
    \A a \in Acquirers : Holding(a) =>
        /\ conns[acq[a].conn].state \in {"Validating", "CheckedOut"}
        /\ \A b \in Acquirers \ {a} : Holding(b) => acq[b].conn # acq[a].conn

\* Two tasks want a connection, one holds the only one and the other waits.
C4_Witness ==
    \E a, b \in Acquirers :
        /\ acq[a].pc = "holding" /\ conns[acq[a].conn].state = "CheckedOut"
        /\ acq[b].pc = "waiting"

\* C5: the number of connections open at once never exceeds
\* node_config.max_size.
C5_PoolBound == Cardinality(OpenConns) <= node_config.max_size

\* The pool is full again after a connection was discarded and replaced.
C5_Witness ==
    /\ Cardinality(OpenConns) = node_config.max_size
    /\ \E k \in ConnIds : conns[k].state \in {"Broken", "Closed"}

\* C6: a connection whose socket was closed before validation began does not
\* pass it (is_valid returns an error), and a connection that ended Broken or
\* Closed is with no task.
C6_DeadSocketDetected ==
    \A a \in Acquirers :
        /\ acq[a].pc = "holding" => ~acq[a].vdead
        /\ Holding(a) => conns[acq[a].conn].state \notin {"Broken", "Closed"}

HandshakeOk(k) ==
    \/ conns[k].hs = "sent" /\ conns'[k].hs = "READY"
    \/ conns[k].hs = "auth" /\ conns'[k].hs = "AUTH_SUCCESS"

C8_ReadyOnlyAfterHandshake ==
    /\ [](\A k \in ConnIds :
            /\ conns[k].state = "Ready" =>
                 conns[k].hs \in {"READY", "AUTH_SUCCESS", "used"}
            /\ conns[k].state = "Handshaking" => conns[k].hs \in {"none", "sent", "auth"}
            /\ conns[k].chal > 0 => conns[k].hs = "auth")
    /\ [][\A k \in ConnIds :
            /\ (conns[k].state = "None" /\ conns'[k].state # "None") =>
                  conns'[k].state = "Connecting"
            /\ (conns[k].state = "Connecting" /\ conns'[k].state # "Connecting") =>
                  conns'[k].state \in {"Handshaking", "Closed"}
            /\ (conns[k].state = "Handshaking" /\ conns'[k].state # "Handshaking") =>
                  \/ conns'[k].state = "Ready" /\ HandshakeOk(k)
                  \/ conns'[k].state = "Closed" /\ ~HandshakeOk(k)
            /\ (conns[k].state # "Ready" /\ conns'[k].state = "Ready") =>
                  conns[k].state \in {"Handshaking", "CheckedOut"}
            /\ conns[k].state \in {"Broken", "Closed"} => conns'[k] = conns[k]]_vars

\* A connection became Ready through AUTHENTICATE and AUTH_SUCCESS.
C8_Witness ==
    \E k \in ConnIds : conns[k].state = "Ready" /\ conns[k].hs = "AUTH_SUCCESS"

\* C9: a task whose round trip failed gives its connection back: the release
\* comes (the handle is dropped on every path), it puts that connection back
\* in the pool as idle, and the pool holds as many connections as before.
C9_GuaranteedRelease ==
    /\ \A a \in Acquirers : (acq[a].pc = "failed") ~> (acq[a].pc # "failed")
    /\ [][\A a \in Acquirers :
            (acq[a].pc = "failed" /\ acq'[a].pc # "failed") =>
                /\ acq'[a] = NoAcq
                /\ conns'[acq[a].conn].state = "Ready"
                /\ PoolConns' = PoolConns]_vars

\* A round trip was given up after its write and the connection released:
\* it is idle again, with the unread response on it, and tasks wait for it.
C9_Witness ==
    \E k \in ConnIds :
        /\ conns[k].state = "Ready"
        /\ conns[k].taint
        /\ conns[k].in > 0
        /\ \A a \in Acquirers : acq[a].pc = "waiting"

\* C10: a connection on which a round trip failed midway is not used again:
\* it is never handed to a task after validation.
C10_FailedConnectionNotReused ==
    \A a \in Acquirers : acq[a].pc = "holding" => ~conns[acq[a].conn].taint

\* The pool's timer runs: an acquisition that stays pending meets its
\* connection_timeout.
PoolTimeoutSpec == PoolSpec /\ \A a \in Acquirers : WF_vars(GetTimeout(a))

\* C11: every acquisition request ends: the acquirer is handed a validated
\* connection or the request fails at the acquisition timeout, also while
\* every connection of the pool stays checked out; a pending request is left
\* only by taking an idle connection into validation or by the timeout.
C11_AcquisitionEnds ==
    /\ \A a \in Acquirers :
         (acq[a].pc \in {"waiting", "validating"}) ~> (acq[a].pc \in {"holding", "idle"})
    /\ [][\A a \in Acquirers :
            /\ (acq[a].pc = "waiting" /\ acq'[a].pc # "waiting") =>
                 \/ acq'[a].pc = "validating" /\ conns[acq'[a].conn].state = "Ready"
                 \/ acq'[a] = NoAcq
            /\ (acq[a].pc = "validating" /\ acq'[a].pc # "validating") =>
                 acq'[a].pc \in {"holding", "waiting", "idle"}
            /\ pool.status = "built" => pool.connection_timeout = node_config.connection_timeout
         ]_vars

\* A request is pending while the pool is at its maximum size and every
\* connection of it is with another task.
C11_Witness ==
    \E a \in Acquirers :
        /\ acq[a].pc = "waiting"
        /\ Cardinality(PoolConns) = pool.max_size
        /\ \A k \in PoolConns : conns[k].state = "CheckedOut"

\* C12: an ERROR frame the peer sends in answer to a request reaches the
\* caller as a server error and does not cost the connection: after a round
\* trip that ended with it the connection is still checked out and goes back
\* idle on release, and a validation answered with it does not end with the
\* connection Broken or Closed.
C12_ServerErrorKeepsConnection ==
    [][\A a \in Acquirers :
         LET k == acq[a].conn IN
         /\ (acq[a].pc = "wrote" /\ acq'[a].pc = "server_error") =>
               conns'[k].state = "CheckedOut" /\ conns'[k].taint = conns[k].taint
         /\ (acq[a].pc = "server_error" /\ acq'[a].pc # "server_error") =>
               conns'[k].state = "Ready"
         /\ (acq[a].pc = "validating" /\ acq'[a].vr = "ServerError") =>
               conns'[k].state \notin {"Broken", "Closed"}]_vars

\* C13: a facade call returns a frame only after its write succeeded and a
\* frame was parsed, and a round trip on a dead socket never returns a
\* successful frame: no call returns Ok while the socket is dead and its
\* request still sits unsent in the send buffer, never seen by the peer.
C13_DeadSocketReturnsError ==
    [][\A t \in Threads :
         (fpc[t] = "written" /\ fpc'[t] = "idle" /\ fres'[t].kind = "Ok") =>
            /\ fres'[t].req = freq[t]
            /\ fres'[t].opcode \notin {"NONE", "BAD", "ERROR"}
            /\ sock = "dead" => \A i \in 1..Len(c2s) : c2s[i].req # freq[t]]_vars

\* C14: the frame start() returns is the server's answer to the STARTUP that
\* call wrote: READY from a server that requires no authentication
\* (AUTHENTICATE only from one that does), and never the answer to another
\* request.
C14_StartReturnsReady ==
    \A t \in Threads :
        (fres[t].kind = "Ok" /\ reqs[fres[t].req] = "STARTUP") =>
            /\ fres[t].answers = fres[t].req
            /\ fres[t].opcode \in {"READY", "AUTHENTICATE"}

\* C15: the guard on a pooled connection is held for one whole
\* write-then-read round trip and released on every way out: in is_valid,
\* between the OPTIONS write and the read of the response the mutex is
\* locked, and once is_valid has returned, with the connection or with an
\* error, the mutex is unlocked.
C15_GuardHeldForRoundTrip ==
    \A k \in ConnIds :
        /\ conns[k].ivpc \in {"locked", "written", "parsing"} => conns[k].mutex
        /\ conns[k].state # "Validating" => ~conns[k].mutex

C17_StartDoesNotContinue ==
    /\ [](/\ \A i \in 1..Len(reqs) : reqs[i] \in RequestOpcodes
          /\ \A t \in Threads :
               (fpc[t] = "idle" /\ Len(reqs) < MaxReqs) =>
                  /\ ENABLED options(t)
                  /\ ENABLED prepare(t)
                  /\ ENABLED execute(t)
                  /\ ENABLED query(t))
    /\ [][Len(s2c') < Len(s2c) =>
            /\ s2c' = Tail(s2c)
            /\ reqs' = reqs /\ c2s' = c2s
            /\ \E t \in Threads :
                 /\ fpc[t] = "written" /\ fpc'[t] = "idle"
                 /\ fres'[t].kind = parse_frame(Head(s2c)).kind
                 /\ fres'[t].opcode = parse_frame(Head(s2c)).frame.opcode
                 /\ fres'[t].req = freq[t]]_vars

\* start() returned AUTHENTICATE as a success, no READY or AUTH_SUCCESS was
\* ever received, and a later request was still written and answered.
C17_Witness ==
    \E t, u \in Threads :
        /\ fres[t].kind = "Ok" /\ fres[t].opcode = "AUTHENTICATE"
        /\ reqs[fres[t].req] = "STARTUP"
        /\ fres[u].kind = "Ok" /\ fres[u].opcode = "RESULT"
        /\ fres[u].req > fres[t].req

\* What new_ssl_pool returns on success: the pool with the first resolved
\* address and exactly the node's five settings.
C18_BuiltAsConfigured ==
    pool.status = "built" =>
        /\ pool.error = ""
        /\ pool.addr = "addr1"
        /\ pool.max_size = node_config.max_size
        /\ pool.min_idle = node_config.min_idle
        /\ pool.max_lifetime = node_config.max_lifetime
        /\ pool.idle_timeout = node_config.idle_timeout
        /\ pool.connection_timeout = node_config.connection_timeout

\* A call that failed returned no pool: no connection is ever made.
C18_NoPoolOnError ==
    pool.status = "error" =>
        /\ pool.addr = ""
        /\ \A k \in ConnIds : conns[k] = NoConn
        /\ \A a \in Acquirers : acq[a] = NoAcq

\* C18 as stated: new_ssl_pool returns a pool only if the build succeeded and
\* the address resolved to at least one socket address, built as configured;
\* its errors are the build error's text, or 'Cannot parse address' for an
\* address that fails to resolve or resolves to nothing.
C18_ErrorsAsStated ==
    /\ C18_BuiltAsConfigured
    /\ C18_NoPoolOnError
    /\ pool.status = "error" => pool.error \in {"build", "Cannot parse address"}

\* C18 amended: as above, but an address that fails to resolve is returned
\* as the resolver's own I/O error (the `?` after to_socket_addrs), and only
\* an address that resolves to nothing as 'Cannot parse address'.
C18_ErrorsAmended ==
    /\ C18_BuiltAsConfigured
    /\ C18_NoPoolOnError
    /\ pool.status = "error" => pool.error \in {"build", "io", "Cannot parse address"}

\* new_ssl_pool failed on an address that does not resolve.
C18_Witness == pool.status = "error" /\ pool.error = "io"

\* C19: has_broken says false of every connection, so giving a connection
\* back never discards it: a checked-out connection does not become Broken
\* or Closed, the release leaves it idle and otherwise as it was (socket,
\* buffered frames and all), and a connection past its handshake leaves the
\* pool only from validation (failed or cut short) or, idle, by the
\* framework's lifetime and idle policy.
C19_ReleaseNeverDiscards ==
    /\ [](\A k \in ConnIds : ~has_broken(k))
    /\ [][\A k \in ConnIds :
            /\ conns[k].state = "CheckedOut" =>
                 /\ conns'[k].state \in {"CheckedOut", "Ready"}
                 /\ conns'[k].state = "Ready" =>
                      conns'[k] = [conns[k] EXCEPT !.state = "Ready"]
            /\ (conns[k].state \in {"Ready", "Validating", "CheckedOut"}
                  /\ conns'[k].state \in {"Broken", "Closed"}) =>
                 \/ conns[k].state = "Validating"
                 \/ conns[k].state = "Ready" /\ conns'[k].state = "Closed"]_vars

\* A connection with a dead socket, on which a round trip failed midway, was
\* given back and is idle in the pool.
C19_Witness ==
    \E k \in ConnIds :
        /\ conns[k].state = "Ready"
        /\ conns[k].taint
        /\ conns[k].sock = "dead"

====
